---- MODULE Spec2Model ----
(***************************************************************************)
(* The registry portal: a password-gated Streamlit app (app.py) and three  *)
(* editable grid pages (initiatives, members, speakers).  Every user       *)
(* interaction re-runs the page script from the top: load the table        *)
(* (st.cache_data, ttl 60 s), make sure the expected columns exist, apply   *)
(* the filters, show st.data_editor, and on the save button reconcile the   *)
(* edited frame into an upsert batch and an insert batch.                   *)
(*                                                                         *)
(* Values are strings.  Python objects that are not strings are written as  *)
(* tagged strings ("None", "NaN", "NaT", "date:2025-03-01",                 *)
(* "ts:2025-03-01"), so that a wire string and the object parsed from it    *)
(* are different values.                                                     *)
(***************************************************************************)
EXTENDS Integers, Sequences, FiniteSets, TLC

VARIABLES
    release,        \* the Streamlit release: how data_editor applies row edits
    page,           \* the grid page of this session: which pages/*.py script runs
    screen,         \* "app" (app.py ran last) or "page" (the grid page ran last)
    authenticated,  \* st.session_state.authenticated
    store,          \* the remote table: [cols, rows], rows in storage order
    cache,          \* the st.cache_data entry of load_*: [valid, expired, data]
    selected,       \* the filter widgets: [first, second]
    df_all,         \* df_all of the last page run (the canonical table)
    editor,         \* st.data_editor widget state: [base, cells, deleted, added]
    calls,          \* store calls issued by the last script run, in order
    outcome,        \* "none" | "success" | "failure": the save handler's report
    work,           \* the frame the save handler copied (edited_df.copy())
    dropped,        \* rows dropna(how="all") removed in the last save
    to_update,      \* to_update of the last save
    to_insert,      \* to_insert of the last save
    entry,          \* cache and df_all of the run that reached the save handler
    nSteps          \* grid edits and ttl expiries so far (bounded by MaxSteps)

vars == <<release, page, screen, authenticated, store, cache, selected, df_all, editor,
          calls, outcome, work, dropped, to_update, to_insert, entry, nSteps>>

(***************************************************************************)
(* Bounds of the model.                                                     *)
(***************************************************************************)
MaxSteps == 2       \* grid edits (cell, add row, delete row) and ttl expiries per behaviour
MaxFresh == 1       \* identities the store can still assign to inserted rows

(***************************************************************************)
(* Values.                                                                  *)
(***************************************************************************)
None == "None"      \* Python None / SQL NULL
NaN == "NaN"        \* float("nan"): a missing cell of an object column
NaT == "NaT"        \* pandas.NaT: a missing or unparsable date

\* pd.isna / pd.notnull / what dropna counts as missing
IsNA(v) == v \in {None, NaN, NaT}

\* bool(v) of Python for the values an id cell can hold
Truthy(v) == v \notin {None, ""}

\* str.strip() on the strings of the model
Strip(s) == CASE s = " " -> ""
              [] s = " c" -> "c"
              [] OTHER -> s

Pages == {"initiatives", "members", "speakers"}

APP_PASSWORD == "secret"

Range(s) == {s[i] : i \in DOMAIN s}

RECURSIVE SelectSeq2(_, _)
\* the subsequence of s of the elements in set S (list comprehension with a test)
SelectSeq2(s, S) ==
    IF s = <<>> THEN <<>>
    ELSE IF Head(s) \in S THEN <<Head(s)>> \o SelectSeq2(Tail(s), S)
         ELSE SelectSeq2(Tail(s), S)

(***************************************************************************)
(* The schemas of the three pages, as the source lists them.                *)
(***************************************************************************)
ExpectedCols(p) ==
    CASE p = "initiatives" ->
           <<"id", "initiative_name", "region", "status", "lead_steward",
             "last_check_in", "next_check_in", "notes", "updated_at">>
      [] p = "members" ->
           <<"id", "name", "organization", "role", "email", "phone", "region",
             "member_type", "expertise_areas", "status", "notes", "updated_at">>
      [] p = "speakers" ->
           <<"id", "name", "organization", "title", "email", "phone", "bio",
             "topics", "availability", "speaking_fee", "region", "website",
             "linkedin", "last_spoke_date", "notes", "updated_at">>

AllowedCols(p) ==
    CASE p = "initiatives" ->
           {"id", "initiative_name", "region", "status", "lead_steward",
            "last_check_in", "next_check_in", "notes"}
      [] p = "members" ->
           {"id", "name", "organization", "role", "email", "phone", "region",
            "member_type", "expertise_areas", "status", "notes"}
      [] p = "speakers" ->
           {"id", "name", "organization", "title", "email", "phone", "bio",
            "topics", "availability", "speaking_fee", "region", "website",
            "linkedin", "last_spoke_date", "notes"}

\* the column of .order(...)
SortCol(p) == IF p = "initiatives" THEN "initiative_name" ELSE "name"

\* the columns load_* parses as dates
DateCols(p) ==
    CASE p = "initiatives" -> {"last_check_in", "next_check_in"}
      [] p = "members" -> {}
      [] p = "speakers" -> {"last_spoke_date"}

\* the column of the first filter widget and of the second (none on initiatives)
FilterCol(p) == IF p = "speakers" THEN "availability" ELSE "status"
SecondCol(p) == IF p = "members" THEN "member_type" ELSE "region"

(***************************************************************************)
(* The remote table.  PostgREST returns every column of the table on every  *)
(* row, so a table is its column list and its rows.  The fixtures are the   *)
(* tables a session can start on: empty, two ordinary records, a table of   *)
(* blank rows, and a table that drifted from the page's schema (no notes    *)
(* and updated_at columns, an undeclared column, an unparsable date).  The  *)
(* repository does not fix the type of the id column; the handlers provide  *)
(* for identities that are missing or blank strings ("Empty string IDs      *)
(* should be treated as missing IDs"), and the last two fixtures hold such. *)
(***************************************************************************)
Opt1(p) == IF p = "speakers" THEN "Available" ELSE "Active"
Opt2(p) == CASE p = "initiatives" -> "Paused"
             [] p = "members" -> "Inactive"
             [] p = "speakers" -> "Limited"

StoreRow(p, cols, id, name, first, second, date, extra) ==
    [c \in Range(cols) |->
        CASE c = "id" -> id
          [] c = SortCol(p) -> name
          [] c = FilterCol(p) -> first
          [] c = SecondCol(p) -> second
          [] c \in DateCols(p) -> date
          [] c = "updated_at" -> "T"
          [] c = "Extra Col" -> extra
          [] OTHER -> None]

DriftCols(p) ==
    SelectSeq2(ExpectedCols(p), Range(ExpectedCols(p)) \ {"notes", "updated_at"})
        \o <<"Extra Col">>

EmptyTable(p) == [cols |-> ExpectedCols(p), rows |-> <<>>]

\* two ordinary records
TwoRecords(p) ==
    LET E == ExpectedCols(p)
        s1 == IF p = "members" THEN "Mentor" ELSE "NEK North"
    IN  [cols |-> E,
         rows |-> << StoreRow(p, E, "a", "A", None, None, None, None),
                     StoreRow(p, E, "b", "B", Opt1(p), s1, "2025-03-01", None) >>]

\* a record that has an identity and nothing else, and a row of nulls
Blanks(p) ==
    LET E == ExpectedCols(p)
    IN  [cols |-> E,
         rows |-> << StoreRow(p, E, "d", None, None, None, None, None),
                     [c \in Range(E) |-> None] >>]

\* a drifted table, its identities a blank and the empty string
Drifted(p) ==
    LET D == DriftCols(p)
        s1 == IF p = "members" THEN "Mentor" ELSE "NEK North"
    IN  [cols |-> D,
         rows |-> << StoreRow(p, D, " ", "W", Opt1(p), s1, "n/a", "x"),
                     StoreRow(p, D, "", "V", None, None, None, None) >>]

Fixtures(p) == {EmptyTable(p), TwoRecords(p), Blanks(p), Drifted(p)}

\* ORDER BY <text column> ASC of the store (NULLS LAST), on the names of the model
Rank(v) == CASE v = "A" -> 1
             [] v = "B" -> 2
             [] v = "V" -> 3
             [] v = "W" -> 4
             [] v = "Z" -> 5
             [] OTHER -> 6

RECURSIVE InsertSorted(_, _, _)
InsertSorted(r, s, col) ==
    IF s = <<>> THEN <<r>>
    ELSE IF Rank(r[col]) < Rank(Head(s)[col]) THEN <<r>> \o s
         ELSE <<Head(s)>> \o InsertSorted(r, Tail(s), col)

RECURSIVE SortRows(_, _)
SortRows(s, col) ==
    IF s = <<>> THEN <<>>
    ELSE InsertSorted(s[Len(s)], SortRows(SubSeq(s, 1, Len(s) - 1), col), col)

\* supabase.table(..).select("*").order(col).execute().data; rows that tie
\* come in storage order
Select(p, st) == SortRows(st.rows, SortCol(p))

(***************************************************************************)
(* Table Loader: load_initiatives / load_members / load_speakers and the    *)
(* expected_cols block after it.  A frame is [cols, rows]; the index of     *)
(* df_all and of base_df is 0..n-1 by position.                             *)
(***************************************************************************)
EmptyFrame == [cols |-> <<>>, rows |-> <<>>]

\* pd.DataFrame(resp.data or [])
DataFrame(cols, data) ==
    IF data = <<>> THEN EmptyFrame ELSE [cols |-> cols, rows |-> data]

\* pd.to_datetime(v, errors="coerce") followed by .dt.date (initiatives) or
\* kept as a Timestamp (speakers)
ParseDate(p, v) ==
    IF v = "2025-03-01"
    THEN (IF p = "initiatives" THEN "date:2025-03-01" ELSE "ts:2025-03-01")
    ELSE NaT

\* the body of load_*: fetch, build the frame, parse the date columns
LoadFrame(p, st) ==
    LET df == DataFrame(st.cols, Select(p, st))
        cs == Range(df.cols)
    IN  [cols |-> df.cols,
         rows |-> [i \in DOMAIN df.rows |->
                     [c \in cs |->
                        IF c \in DateCols(p) THEN ParseDate(p, df.rows[i][c])
                        ELSE df.rows[i][c]]]]

\* the value df_all[c] = ... gives a column the store did not return
MissingDefault(p, c) ==
    IF p = "speakers" /\ c = "last_spoke_date" THEN NaT ELSE None

\* faulty variant of EnsureExpected: the loop that adds the missing columns left out
LeaveAsLoaded(p, df) ==
    IF df.rows = <<>> \/ df.cols = <<>>
    THEN [cols |-> ExpectedCols(p), rows |-> <<>>]
    ELSE df

\* if df_all.empty: DataFrame(columns=expected_cols) else: add each missing column
EnsureExpected(p, df) ==
    IF df.rows = <<>> \/ df.cols = <<>>
    THEN [cols |-> ExpectedCols(p), rows |-> <<>>]
    ELSE LET missing == SelectSeq2(ExpectedCols(p),
                                   Range(ExpectedCols(p)) \ Range(df.cols))
             cols == df.cols \o missing
             have == Range(df.cols)
             cs == Range(cols)
         IN  [cols |-> cols,
              rows |-> [i \in DOMAIN df.rows |->
                          [c \in cs |->
                             IF c \in have THEN df.rows[i][c]
                             ELSE MissingDefault(p, c)]]]

(***************************************************************************)
(* View Filter: the selectbox / text_input filters and base_df.             *)
(***************************************************************************)
FirstChoices(p) == {"All", Opt1(p)}
SecondChoices(p) ==
    CASE p = "initiatives" -> {"All"}
      [] p = "members" -> {"All", "Mentor"}
      [] p = "speakers" -> {"", "nek"}

\* Series.str.contains(needle, case=False, na=False) on the regions of the model
ContainsNoCase(v, needle) == needle = "nek" /\ v = "NEK North"

FirstPass(p, r, sel) == sel.first = "All" \/ r[FilterCol(p)] = sel.first

SecondPass(p, r, sel) ==
    CASE p = "initiatives" -> TRUE
      [] p = "members" -> sel.second = "All" \/ r[SecondCol(p)] = sel.second
      [] p = "speakers" -> sel.second = "" \/ ContainsNoCase(r[SecondCol(p)], sel.second)

RECURSIVE KeepRows(_, _, _)
KeepRows(p, rows, sel) ==
    IF rows = <<>> THEN <<>>
    ELSE IF FirstPass(p, Head(rows), sel) /\ SecondPass(p, Head(rows), sel)
         THEN <<Head(rows)>> \o KeepRows(p, Tail(rows), sel)
         ELSE KeepRows(p, Tail(rows), sel)

\* faulty variant of BaseDf: the id column taken from df_all by position after
\* the index was reset (base_df["id"] = df_all["id"])
BaseDfIdsByPosition(p, df, sel) ==
    LET kept == KeepRows(p, df.rows, sel)
    IN  [cols |-> df.cols,
         rows |-> [i \in DOMAIN kept |-> [kept[i] EXCEPT !["id"] = df.rows[i]["id"]]]]

\* df = df_all.copy(); df = df[...]; base_df = df.reset_index(drop=True).copy()
BaseDf(p, df, sel) == [cols |-> df.cols, rows |-> KeepRows(p, df.rows, sel)]

(***************************************************************************)
(* Grid Editor State: st.data_editor(base_df, num_rows="dynamic").  The     *)
(* widget keeps the cell edits of the rows it was given, the positions of   *)
(* the rows deleted and the rows added; each run it returns a copy of its   *)
(* input with these applied: the cell edits, the deletions and the          *)
(* additions, in the order of the release.  Rows keep the index label they  *)
(* had in base_df; an added row gets the next label of the index it is      *)
(* appended to: the stop of a RangeIndex, the highest label plus one of the *)
(* integer index a deletion leaves.  A returned row is [label, origin,      *)
(* vals]: origin is the position in base_df of the row it was made from, 0  *)
(* for an added row (it is kept for the properties only, the code never     *)
(* reads it).                                                               *)
(***************************************************************************)
\* base_df.drop(columns=["id"], errors="ignore") on members and speakers;
\* initiatives shows the id column (disabled) in the editor
EditorFrame(p, base) ==
    IF p = "initiatives" THEN base
    ELSE LET cols == SelectSeq2(base.cols, Range(base.cols) \ {"id"})
             cs == Range(cols)
         IN  [cols |-> cols,
              rows |-> [i \in DOMAIN base.rows |-> [c \in cs |-> base.rows[i][c]]]]

\* the widget state of a data_editor first shown with frame ef
NewEditor(ef) ==
    [base |-> ef, cells |-> ef.rows, deleted |-> {}, added |-> <<>>]

SetMax(S) == CHOOSE x \in S : \A y \in S : y <= x

RECURSIVE OrigRows(_, _)
\* the rows of the input that were not deleted, cell edits applied, from position i on
OrigRows(ed, i) ==
    IF i > Len(ed.cells) THEN <<>>
    ELSE IF i \in ed.deleted THEN OrigRows(ed, i + 1)
         ELSE <<[label |-> i - 1, origin |-> i, vals |-> ed.cells[i]]>>
                  \o OrigRows(ed, i + 1)

\* the repository pins no release of Streamlit: earlier releases add the new
\* rows and then delete, current ones delete first
Releases == {"additions_first", "deletions_first"}

\* the label of the first added row.  additions_first: the stop of the
\* RangeIndex of the input.  deletions_first: one past the highest label left
\* after the deletions (position i holds label i - 1), 0 on an empty index
FirstAddedLabel(ed) ==
    LET left == (1..Len(ed.cells)) \ ed.deleted
    IN  IF release = "additions_first" THEN Len(ed.cells)
        ELSE IF left = {} THEN 0 ELSE SetMax(left)

\* the frame data_editor returns
ApplyEdits(ed) ==
    LET first == FirstAddedLabel(ed)
    IN  [cols |-> ed.base.cols,
         rows |-> OrigRows(ed, 1) \o
                  [k \in DOMAIN ed.added |->
                     [label |-> first + k - 1, origin |-> 0, vals |-> ed.added[k]]]]

\* row_ids = base_df["id"]: the id at each index label 0..n-1
RowIds(base) == [l \in 0..(Len(base.rows) - 1) |-> base.rows[l + 1]["id"]]

\* edited_df.insert(0, "id", row_ids): a Series is aligned on the index label,
\* a label the Series does not have gets NaN
AttachId(row_ids, label) ==
    IF label \in DOMAIN row_ids THEN row_ids[label] ELSE NaN

\* edited_df as the save handler sees it
EditedDf(p, base, ed) ==
    LET ef == ApplyEdits(ed)
        ids == RowIds(base)
        cs == {"id"} \cup Range(ef.cols)
    IN  IF p = "initiatives" THEN ef
        ELSE [cols |-> <<"id">> \o ef.cols,
              rows |-> [i \in DOMAIN ef.rows |->
                 [label |-> ef.rows[i].label, origin |-> ef.rows[i].origin,
                  vals |-> [c \in cs |->
                              IF c = "id" THEN AttachId(ids, ef.rows[i].label)
                              ELSE ef.rows[i].vals[c]]]]]

\* the columns configured with required=True: the grid submits an edit of
\* such a cell only if it has a value, and a new row only once they are filled
RequiredCols(p) ==
    CASE p = "initiatives" -> {"initiative_name", "status"}
      [] p = "members" -> {"name", "status"}
      [] p = "speakers" -> {"name"}

\* a row a user adds, as the grid submits it: the required columns typed in
\* (the name "Z", the second option of the selectbox), the others empty
NewRow(p, ef) ==
    [c \in Range(ef.cols) |->
        IF c \notin RequiredCols(p) THEN None
        ELSE IF c = SortCol(p) THEN "Z" ELSE Opt2(p)]

(***************************************************************************)
(* Reconciler: the body of the save handler up to the two batches.          *)
(***************************************************************************)
\* c.strip().lower().replace(" ", "_").replace("-", "_") on the column names of the model
NormalizeCol(c) == IF c = "Extra Col" THEN "extra_col" ELSE c

\* work.columns = [normalised names]
NormalizeColumns(df) ==
    LET old == Range(df.cols)
        new == {NormalizeCol(c) : c \in old}
        Orig(n) == IF n \in old THEN n ELSE CHOOSE c \in old : NormalizeCol(c) = n
    IN  [cols |-> [i \in DOMAIN df.cols |-> NormalizeCol(df.cols[i])],
         rows |-> [i \in DOMAIN df.rows |->
                     [df.rows[i] EXCEPT
                        !.vals = [n \in new |-> df.rows[i].vals[Orig(n)]]]]]

\* faulty variant of AllMissing: dropna(how="all", subset=<the editable columns>)
AllEditableMissing(r) ==
    \A c \in (DOMAIN r.vals) \ {"id", "updated_at"} : IsNA(r.vals[c])

\* the test of dropna(how="all"): every cell of the row is missing
AllMissing(r) == \A c \in DOMAIN r.vals : IsNA(r.vals[c])

RECURSIVE SelectRows(_, _)
\* the rows of s whose AllMissing is b, in order
SelectRows(s, b) ==
    IF s = <<>> THEN <<>>
    ELSE IF AllMissing(Head(s)) = b THEN <<Head(s)>> \o SelectRows(Tail(s), b)
         ELSE SelectRows(Tail(s), b)

\* work = work.dropna(how="all")
DropNaAll(df) == [cols |-> df.cols, rows |-> SelectRows(df.rows, FALSE)]

\* what where(pd.notnull(work), None) leaves in a missing cell: None, NaT in the
\* datetime64 column of speakers
NullOf(p, c) == IF p = "speakers" /\ c \in DateCols(p) THEN NaT ELSE None

\* work = work.where(pd.notnull(work), None)
WhereNotNull(p, df) ==
    [cols |-> df.cols,
     rows |-> [i \in DOMAIN df.rows |->
                 [df.rows[i] EXCEPT
                    !.vals = [c \in DOMAIN df.rows[i].vals |->
                                IF IsNA(df.rows[i].vals[c]) THEN NullOf(p, c)
                                ELSE df.rows[i].vals[c]]]]]

\* faulty variant of RestrictCols: the restriction to allowed_cols left out
KeepAllCols(p, df) == df

\* work = work[[c for c in work.columns if c in allowed_cols]]
RestrictCols(p, df) ==
    LET cols == SelectSeq2(df.cols, AllowedCols(p))
        cs == Range(cols)
    IN  [cols |-> cols,
         rows |-> [i \in DOMAIN df.rows |->
                     [df.rows[i] EXCEPT !.vals = [c \in cs |-> df.rows[i].vals[c]]]]]

\* date.isoformat() / Timestamp.date().isoformat()
IsoFormat(v) == CASE v = "date:2025-03-01" -> "2025-03-01"
                  [] v = "ts:2025-03-01" -> "2025-03-01"
                  [] OTHER -> v

\* the loop over the cells of the records: missing -> None, dates -> ISO strings
\* (initiatives: datetime.date; speakers: Timestamp; members: no dates)
NormalizeValue(p, v) ==
    IF IsNA(v) THEN None
    ELSE CASE p = "initiatives" -> IF v = "date:2025-03-01" THEN IsoFormat(v) ELSE v
           [] p = "members" -> v
           [] p = "speakers" -> IF v = "ts:2025-03-01" THEN IsoFormat(v) ELSE v

\* records = work.to_dict(orient="records") and the loop over them
Records(p, df) ==
    [i \in DOMAIN df.rows |->
        [df.rows[i] EXCEPT
           !.vals = [c \in DOMAIN df.rows[i].vals |->
                       NormalizeValue(p, df.rows[i].vals[c])]]]

\* the frame work, just before to_dict
Prepared(p, df) ==
    IF p = "initiatives"
    THEN RestrictCols(p, WhereNotNull(p, DropNaAll(NormalizeColumns(df))))
    ELSE RestrictCols(p, DropNaAll(NormalizeColumns(WhereNotNull(p, df))))

\* the rows the handler's dropna removes
DroppedRows(p, df) ==
    IF p = "initiatives" THEN SelectRows(NormalizeColumns(df).rows, TRUE)
    ELSE SelectRows(NormalizeColumns(WhereNotNull(p, df)).rows, TRUE)

\* r.get("id")
GetId(r) == IF "id" \in DOMAIN r.vals THEN r.vals["id"] ELSE None

\* the test that sends a record to to_update:
\* initiatives: raw_id and str(raw_id).strip();  members, speakers: r.get("id")
IsUpdate(p, r) ==
    IF p = "initiatives" THEN Truthy(GetId(r)) /\ Strip(GetId(r)) # ""
    ELSE Truthy(GetId(r))

\* r.pop("id", None)
PopId(r) == [r EXCEPT !.vals = [c \in (DOMAIN r.vals) \ {"id"} |-> r.vals[c]]]

RECURSIVE ToUpdate(_, _)
ToUpdate(p, recs) ==
    IF recs = <<>> THEN <<>>
    ELSE IF IsUpdate(p, Head(recs)) THEN <<Head(recs)>> \o ToUpdate(p, Tail(recs))
         ELSE ToUpdate(p, Tail(recs))

RECURSIVE ToInsertByTrim(_, _)
\* faulty variant of ToInsert: its own test of the id (blank after strip) on
\* every page, where the code has the else branch of the test of to_update
ToInsertByTrim(p, recs) ==
    IF recs = <<>> THEN <<>>
    ELSE IF Truthy(GetId(Head(recs))) /\ Strip(GetId(Head(recs))) # ""
         THEN ToInsertByTrim(p, Tail(recs))
         ELSE <<PopId(Head(recs))>> \o ToInsertByTrim(p, Tail(recs))

RECURSIVE ToInsert(_, _)
ToInsert(p, recs) ==
    IF recs = <<>> THEN <<>>
    ELSE IF IsUpdate(p, Head(recs)) THEN ToInsert(p, Tail(recs))
         ELSE <<PopId(Head(recs))>> \o ToInsert(p, Tail(recs))

(***************************************************************************)
(* Record Store Client, as the pages use it: upsert by id and insert.  The  *)
(* store rejects a payload naming a column the table does not have, assigns *)
(* the id of an inserted row and manages updated_at itself.                 *)
(***************************************************************************)
FreshId(k) == CASE k = 1 -> "n1"
                [] k = 2 -> "n2"
                [] k = 3 -> "n3"
                [] OTHER -> "n4"

FreshUsed(st) ==
    Cardinality({i \in DOMAIN st.rows : st.rows[i]["id"] \in {"n1", "n2", "n3", "n4"}})

\* whether the table has every column the batch names
Accepts(st, batch) ==
    \A i \in DOMAIN batch : DOMAIN batch[i].vals \subseteq Range(st.cols)

\* a stored row written from record rec; old is the row it replaces
Written(st, rec, old) ==
    [c \in Range(st.cols) |->
        IF c \in DOMAIN rec THEN rec[c]
        ELSE IF c = "updated_at" THEN "T2" ELSE old[c]]

NoRow(st) == [c \in Range(st.cols) |-> None]

RECURSIVE Upsert(_, _)
\* supabase.table(..).upsert(to_update).execute(), when it succeeds
Upsert(st, batch) ==
    IF batch = <<>> THEN st
    ELSE LET rec == Head(batch).vals
             hit == {i \in DOMAIN st.rows : st.rows[i]["id"] = rec["id"]}
             rows == IF hit = {} THEN Append(st.rows, Written(st, rec, NoRow(st)))
                     ELSE [i \in DOMAIN st.rows |->
                             IF i \in hit THEN Written(st, rec, st.rows[i])
                             ELSE st.rows[i]]
         IN  Upsert([st EXCEPT !.rows = rows], Tail(batch))

RECURSIVE Insert(_, _)
\* supabase.table(..).insert(to_insert).execute(), when it succeeds
Insert(st, batch) ==
    IF batch = <<>> THEN st
    ELSE LET rec == Head(batch).vals
             new == [Written(st, rec, NoRow(st)) EXCEPT !["id"] = FreshId(FreshUsed(st) + 1)]
         IN  Insert([st EXCEPT !.rows = Append(st.rows, new)], Tail(batch))

\* what one store call can answer: it may always fail (transport, validation);
\* it can succeed only on a payload the table accepts
UpsertAnswers(st, batch) ==
    IF Accepts(st, batch) THEN {TRUE, FALSE} ELSE {FALSE}

InsertAnswers(st, batch) ==
    IF Accepts(st, batch) /\ FreshUsed(st) + Len(batch) <= MaxFresh
    THEN {TRUE, FALSE} ELSE {FALSE}

Call(op, batch, ok) == [op |-> op, batch |-> batch, ok |-> ok]

(***************************************************************************)
(* One run of the page script down to the editor.                           *)
(***************************************************************************)
NoCache == [valid |-> FALSE, expired |-> FALSE, data |-> EmptyFrame]

\* @st.cache_data(ttl=60): a stored value younger than the ttl is served
CacheHit(c) == c.valid /\ ~c.expired

DefaultSelection(p) ==
    [first |-> "All", second |-> IF p = "speakers" THEN "" ELSE "All"]

\* the script from the top to the data_editor call: [cache, df_all, editor, calls]
RunScript(p, c, st, sel, ed) ==
    LET data == IF CacheHit(c) THEN c.data ELSE LoadFrame(p, st)
        df == EnsureExpected(p, data)
        ef == EditorFrame(p, BaseDf(p, df, sel))
    IN  [cache |-> IF CacheHit(c) THEN c
                   ELSE [valid |-> TRUE, expired |-> FALSE, data |-> data],
         df_all |-> df,
         editor |-> IF ed.base = ef THEN ed ELSE NewEditor(ef),
         calls |-> IF CacheHit(c) THEN <<>> ELSE <<Call("select", <<>>, TRUE)>>]

\* base_df and edited_df of the current state
CurBase == BaseDf(page, df_all, selected)
Snapshot == EditedDf(page, CurBase, editor).rows

NoEntry == [cache |-> NoCache, df_all |-> EmptyFrame]

NoSave ==
    /\ outcome' = "none"
    /\ entry' = NoEntry
    /\ work' = EmptyFrame
    /\ dropped' = <<>>
    /\ to_update' = <<>>
    /\ to_insert' = <<>>

Ran(r) ==
    \E run \in {r} :
    /\ screen' = "page"
    /\ cache' = run.cache
    /\ df_all' = run.df_all
    /\ editor' = run.editor
    /\ calls' = run.calls

(***************************************************************************)
(* The session.  Streamlit serves app.py and every script of pages/ as a    *)
(* page of its own; a session starts on app.py and the sidebar leads to the *)
(* others.  Leaving a page drops the state of its widgets.                  *)
(***************************************************************************)
Passwords == {"secret", "guess"}

\* a new session, on app.py, nothing typed
InitSession ==
    /\ release \in Releases
    /\ page \in Pages
    /\ store = TwoRecords(page)
    /\ screen = "app"
    /\ authenticated = FALSE
    /\ cache = NoCache
    /\ selected = DefaultSelection(page)
    /\ df_all = EmptyFrame
    /\ editor = NewEditor(EmptyFrame)
    /\ calls = <<>>
    /\ outcome = "none"
    /\ work = EmptyFrame
    /\ dropped = <<>>
    /\ to_update = <<>>
    /\ to_insert = <<>>
    /\ entry = NoEntry
    /\ nSteps = 0

\* a session that has passed the gate, about to open one of the grid pages
Init ==
    /\ release \in Releases
    /\ page \in Pages
    /\ store \in Fixtures(page)
    /\ screen = "app"
    /\ authenticated = TRUE
    /\ cache = NoCache
    /\ selected = DefaultSelection(page)
    /\ df_all = EmptyFrame
    /\ editor = NewEditor(EmptyFrame)
    /\ calls = <<>>
    /\ outcome = "none"
    /\ work = EmptyFrame
    /\ dropped = <<>>
    /\ to_update = <<>>
    /\ to_insert = <<>>
    /\ entry = NoEntry
    /\ nSteps = 0

\* app.py, run with the password field empty: the gate, or the home page
OpenApp ==
    /\ screen = "page"
    /\ screen' = "app"
    /\ selected' = DefaultSelection(page)
    /\ editor' = NewEditor(editor.base)
    /\ calls' = <<>>
    /\ NoSave
    /\ UNCHANGED <<release, page, authenticated, store, cache, df_all, nSteps>>

\* app.py, run with pwd typed into the gate
EnterPassword(pwd) ==
    /\ screen = "app"
    /\ ~authenticated
    /\ authenticated' = (pwd = APP_PASSWORD)
    /\ calls' = <<>>
    /\ NoSave
    /\ UNCHANGED <<release, page, screen, store, cache, selected, df_all, editor, nSteps>>

\* the sidebar link to the grid page: the page script runs, widgets at their defaults
Navigate ==
    /\ screen = "app"
    /\ Ran(RunScript(page, cache, store, DefaultSelection(page), editor))
    /\ selected' = DefaultSelection(page)
    /\ NoSave
    /\ UNCHANGED <<release, page, authenticated, store, nSteps>>

\* a filter widget set to sel (sel = selected: any interaction that only reruns)
ChangeFilter(sel) ==
    /\ screen = "page"
    /\ Ran(RunScript(page, cache, store, sel, editor))
    /\ selected' = sel
    /\ NoSave
    /\ UNCHANGED <<release, page, authenticated, store, nSteps>>

\* the cells a user edits in the model: the name is set to "Z" (a required
\* cell takes no empty value), the cell of the second filter column is cleared
EditCols(p) == {SortCol(p), SecondCol(p)}
EditValues(p, c) == IF c \in RequiredCols(p) THEN {"Z"} ELSE {None}

\* the positions in the input of the rows the grid shows before the added rows
ShownOrig(ed) == SelectSeq2([i \in DOMAIN ed.cells |-> i], (DOMAIN ed.cells) \ ed.deleted)

ShownLen(ed) == Len(ShownOrig(ed)) + Len(ed.added)

\* the widget state after cell (i, c) of the grid is set to v
WithCell(ed, i, c, v) ==
    LET shown == ShownOrig(ed)
    IN  IF i <= Len(shown)
        THEN [ed EXCEPT !.cells[shown[i]][c] = v]
        ELSE [ed EXCEPT !.added[i - Len(shown)][c] = v]

\* the widget state after row i of the grid is deleted
WithoutRow(ed, i) ==
    LET shown == ShownOrig(ed)
        k == i - Len(shown)
    IN  IF i <= Len(shown)
        THEN [ed EXCEPT !.deleted = @ \cup {shown[i]}]
        ELSE [ed EXCEPT !.added = SubSeq(@, 1, k - 1) \o SubSeq(@, k + 1, Len(@))]

\* the script rerun an edit of the grid triggers
Edited(ed) ==
    /\ Ran(RunScript(page, cache, store, selected, ed))
    /\ nSteps' = nSteps + 1
    /\ NoSave
    /\ UNCHANGED <<release, page, authenticated, store, selected>>

EditCell(i, c, v) ==
    /\ screen = "page"
    /\ nSteps < MaxSteps
    /\ i \in 1..ShownLen(editor)
    /\ Edited(WithCell(editor, i, c, v))

AddRow ==
    /\ screen = "page"
    /\ nSteps < MaxSteps
    /\ Edited([editor EXCEPT !.added = Append(@, NewRow(page, editor.base))])

DeleteRow(i) ==
    /\ screen = "page"
    /\ nSteps < MaxSteps
    /\ i \in 1..ShownLen(editor)
    /\ Edited(WithoutRow(editor, i))

\* the ttl of the cached table runs out
Tick ==
    /\ cache.valid
    /\ ~cache.expired
    /\ nSteps < MaxSteps
    /\ nSteps' = nSteps + 1
    /\ cache' = [cache EXCEPT !.expired = TRUE]
    /\ UNCHANGED <<release, page, screen, authenticated, store, selected, df_all, editor,
                   calls, outcome, work, dropped, to_update, to_insert, entry>>

(***************************************************************************)
(* Sync Coordinator: the end of the save handler.                           *)
(***************************************************************************)
\* whether a successful save ends with st.rerun()
RerunsAfterSave(p) == p # "initiatives"

\* faulty variant of InsertIssued: the upsert in a try block of its own, so
\* that the insert runs after a failed upsert as well
InsertIssuedAnyway(ins, okU) == ins # <<>>

\* whether the handler reaches the insert call: if to_insert, and only if the
\* upsert before it (if there was one) did not raise
InsertIssued(ins, okU) == okU /\ ins # <<>>

\* whether the try block ran to its end: no store call raised
Succeeded(upd, ins, okU, okI) == (upd = <<>> \/ okU) /\ (ins = <<>> \/ okI)

\* faulty variant of AfterHandler: load_*.clear() and st.rerun() in a finally
\* clause, so that they run after a failed save as well
AfterHandlerFinally(p, ok, run, st, sel) ==
    RunScript(p, NoCache, st, sel, run.editor)

\* faulty variant of AfterHandler: load_*.clear() called before the store calls
AfterHandlerClearFirst(p, ok, run, st, sel) ==
    IF ok /\ p # "initiatives"
    THEN RunScript(p, NoCache, st, sel, run.editor)
    ELSE [run EXCEPT !.cache = NoCache, !.calls = <<>>]

\* what the handler leaves behind, from the run that reached it and the store st
\* after its calls: on success load_*.clear() (and on members and speakers
\* st.rerun(): the script runs again); on an exception nothing but the message
AfterHandler(p, ok, run, st, sel) ==
    IF ok
    THEN IF RerunsAfterSave(p)
         THEN RunScript(p, NoCache, st, sel, run.editor)
         ELSE [run EXCEPT !.cache = NoCache, !.calls = <<>>]
    ELSE [run EXCEPT !.calls = <<>>]

\* the save button: the script reruns to the editor, then the handler runs;
\* okU and okI are the answers of the store to the upsert and to the insert
Save ==
    /\ screen = "page"
    /\ \E run \in {RunScript(page, cache, store, selected, editor)} :
       \E w \in {EditedDf(page, BaseDf(page, run.df_all, selected), run.editor)} :
       \E recs \in {Records(page, Prepared(page, w))} :
       \E upd \in {ToUpdate(page, recs)}, ins \in {ToInsert(page, recs)} :
           \E okU \in (IF upd = <<>> THEN {TRUE} ELSE UpsertAnswers(store, upd)) :
             LET st1 == IF upd # <<>> /\ okU THEN Upsert(store, upd) ELSE store
                 reachI == InsertIssued(ins, okU)
             IN  \E okI \in (IF reachI THEN InsertAnswers(st1, ins) ELSE {TRUE}) :
                   LET st2 == IF reachI /\ okI THEN Insert(st1, ins) ELSE st1
                       ok == Succeeded(upd, ins, okU, okI)
                       after == AfterHandler(page, ok, run, st2, selected)
                   IN  /\ work' = w
                       /\ dropped' = DroppedRows(page, w)
                       /\ to_update' = upd
                       /\ to_insert' = ins
                       /\ entry' = [cache |-> run.cache, df_all |-> run.df_all]
                       /\ store' = st2
                       /\ outcome' = IF ok THEN "success" ELSE "failure"
                       /\ screen' = "page"
                       /\ cache' = after.cache
                       /\ df_all' = after.df_all
                       /\ editor' = after.editor
                       /\ calls' = run.calls
                                   \o (IF upd # <<>> THEN <<Call("upsert", upd, okU)>> ELSE <<>>)
                                   \o (IF reachI THEN <<Call("insert", ins, okI)>> ELSE <<>>)
                                   \o after.calls
    /\ UNCHANGED <<release, page, authenticated, selected, nSteps>>

\* what a user does on the grid page
Next ==
    \/ Navigate
    \/ \E f \in FirstChoices(page), s \in SecondChoices(page) :
          ChangeFilter([first |-> f, second |-> s])
    \/ \E i \in 1..(MaxSteps + MaxFresh + 2), c \in EditCols(page) :
          \E v \in EditValues(page, c) : EditCell(i, c, v)
    \/ AddRow
    \/ \E i \in 1..(MaxSteps + MaxFresh + 2) : DeleteRow(i)
    \/ Tick
    \/ Save

Spec == Init /\ [][Next]_vars

\* the whole session: the gate of app.py and the grid page
NextSession ==
    \/ OpenApp
    \/ \E pwd \in Passwords : EnterPassword(pwd)
    \/ Next

SpecSession == InitSession /\ [][NextSession]_vars

(***************************************************************************)
(* Properties.  work, dropped, to_update, to_insert, entry and outcome hold *)
(* the last run of the save handler; a row is named by its index label.     *)
(***************************************************************************)
Saved == outcome # "none"

Labels(s) == {s[i].label : i \in DOMAIN s}

WrittenLabels == Labels(to_update) \cup Labels(to_insert)

\* the id cell of a row of edited_df
IdOf(r) == IF "id" \in DOMAIN r.vals THEN r.vals["id"] ELSE None

\* the rows of table df the filter selection sel leaves out
Excluded(p, df, sel) ==
    {r \in Range(df.rows) : ~(FirstPass(p, r, sel) /\ SecondPass(p, r, sel))}

\* C1: every row of the snapshot the save handler copied is in exactly one of
\* dropped, to_update and to_insert: the three are disjoint, together they
\* are the snapshot, and their lengths add up to the length of the snapshot.
PartitionTotalDisjoint ==
    Saved =>
       /\ Len(dropped) + Len(to_update) + Len(to_insert) = Len(work.rows)
       /\ Labels(dropped) \cup WrittenLabels = Labels(work.rows)
       /\ Labels(dropped) \cap WrittenLabels = {}
       /\ Labels(to_update) \cap Labels(to_insert) = {}
       /\ Cardinality(Labels(work.rows)) = Len(work.rows)

\* a save whose snapshot had a row of each kind
PartitionWitness ==
    Saved /\ dropped # <<>> /\ to_update # <<>> /\ to_insert # <<>>

\* C2: on every page a row that is not dropped goes to to_update, with its
\* identity unchanged, exactly when its identity is present and not empty
\* after trimming; every other such row goes to to_insert without an id key.
TrimmedIdentityPartition ==
    Saved =>
       \A i \in DOMAIN work.rows :
          LET r == work.rows[i]
              present == ~IsNA(IdOf(r)) /\ Strip(IdOf(r)) # ""
          IN  r.label \notin Labels(dropped) =>
                 IF present
                 THEN \E j \in DOMAIN to_update :
                         /\ to_update[j].label = r.label
                         /\ IdOf(to_update[j]) = IdOf(r)
                 ELSE \E j \in DOMAIN to_insert :
                         /\ to_insert[j].label = r.label
                         /\ "id" \notin DOMAIN to_insert[j].vals

\* the non-identity, editable columns of a snapshot row are all blank
EditableBlank(r) ==
    \A c \in (DOMAIN r.vals) \ {"id", "updated_at"} : IsNA(r.vals[c])

\* C3, as the specification states it: a snapshot row whose non-identity
\* columns are all blank is in neither to_update nor to_insert, with or
\* without an identity and whatever updated_at holds; a row with a non-blank
\* non-identity column is never dropped.
BlankRowsNeverWritten ==
    Saved =>
       \A i \in DOMAIN work.rows :
          LET r == work.rows[i]
          IN  /\ EditableBlank(r) => r.label \notin WrittenLabels
              /\ ~EditableBlank(r) => r.label \notin Labels(dropped)

\* C3, as the code has it: a snapshot row is in neither to_update nor
\* to_insert exactly when every one of its cells is missing, the identity,
\* the read-only and the undeclared columns included; a row that carries an
\* identity is written even if every other column is blank.
DroppedIffAllMissing ==
    Saved =>
       \A i \in DOMAIN work.rows :
          LET r == work.rows[i]
          IN  /\ r.label \in WrittenLabels <=> \E c \in DOMAIN r.vals : ~IsNA(r.vals[c])
              /\ r.label \in Labels(dropped) <=> \A c \in DOMAIN r.vals : IsNA(r.vals[c])

\* a row with an identity and nothing else was sent to the store, and a row
\* with nothing at all was dropped
BlankWithIdentityWitness ==
    /\ Saved
    /\ \E i \in DOMAIN work.rows :
          /\ EditableBlank(work.rows[i])
          /\ ~IsNA(IdOf(work.rows[i]))
          /\ work.rows[i].label \in Labels(to_update)

\* C4: after a save that failed (the upsert or the insert raised) the
\* snapshot of the working table is the snapshot the handler was given: the
\* same rows in the same order with the same identities and cell values.
FailedSaveKeepsSnapshot ==
    outcome = "failure" => Snapshot = work.rows

\* a failed save of an edited grid, whose upsert had gone through
FailedSaveWitness ==
    /\ outcome = "failure"
    /\ editor # NewEditor(editor.base)
    /\ \E k \in DOMAIN calls : calls[k].op = "upsert" /\ calls[k].ok

\* C5: a save reports success exactly when every store call it issued
\* succeeded, and exactly then the cache of the loader is invalidated: after
\* a failure the cache is the one the handler found and a load within the
\* ttl issues no select; after a success the next load (the rerun of the
\* handler on members and speakers) fetches the table from the store.
CacheInvalidatedIffAllSucceeded ==
    Saved =>
       /\ (outcome = "success") <=> (\A k \in DOMAIN calls : calls[k].ok)
       /\ outcome = "failure" =>
             /\ [cache EXCEPT !.expired = FALSE] = entry.cache
             /\ cache.valid
             /\ ~cache.expired =>
                   RunScript(page, cache, store, selected, editor).calls = <<>>
       /\ outcome = "success" =>
             IF page = "initiatives"
             THEN /\ ~cache.valid
                  /\ \A k \in DOMAIN calls : calls[k].op = "select" => k = 1
                  /\ LET next == RunScript(page, cache, store, selected, editor)
                     IN  /\ next.calls = <<Call("select", <<>>, TRUE)>>
                         /\ next.cache.data = LoadFrame(page, store)
             ELSE /\ calls[Len(calls)].op = "select"
                  /\ cache.valid
                  /\ cache.data = LoadFrame(page, store)

\* a failed save that left the cache behind the store
StaleCacheWitness ==
    /\ outcome = "failure"
    /\ ~cache.expired
    /\ cache.data # LoadFrame(page, store)

\* C6: in every state of an editing session each identity of the snapshot
\* is the identity of the row of the working table's initial frame it was
\* made from, no identity appears twice, and an added row has none.
IdentitiesOnlyFromLoad ==
    screen = "page" =>
       LET snap == Snapshot
           base == CurBase.rows
       IN  /\ \A i \in DOMAIN snap :
                 IF snap[i].origin = 0
                 THEN IsNA(IdOf(snap[i]))
                 ELSE IdOf(snap[i]) = base[snap[i].origin]["id"]
           /\ \A i, j \in DOMAIN snap :
                 i # j /\ ~IsNA(IdOf(snap[i])) => IdOf(snap[i]) # IdOf(snap[j])

\* C7: no grid page issues a select, an upsert or an insert unless the
\* session's authenticated flag is true.
GridGuardedByPassword ==
    calls # <<>> => authenticated

\* C8: every record of to_update and of to_insert, and so of the payloads
\* of upsert and insert, has only keys of allowed_cols (id only in
\* to_update): never updated_at, never a column the page does not declare.
PayloadWithinWritable ==
    Saved =>
       /\ \A j \in DOMAIN to_update :
             /\ DOMAIN to_update[j].vals \subseteq AllowedCols(page)
             /\ DOMAIN to_update[j].vals \cap {"updated_at", "extra_col", "Extra Col"} = {}
       /\ \A j \in DOMAIN to_insert :
             /\ DOMAIN to_insert[j].vals \subseteq AllowedCols(page) \ {"id"}
             /\ DOMAIN to_insert[j].vals \cap {"updated_at", "extra_col", "Extra Col"} = {}
       /\ \A k \in DOMAIN calls :
             /\ calls[k].op = "upsert" => calls[k].batch = to_update
             /\ calls[k].op = "insert" => calls[k].batch = to_insert

\* a save of a frame that carries updated_at and an undeclared column
PayloadWitness ==
    /\ Saved
    /\ {"updated_at", "Extra Col"} \subseteq Range(work.cols)
    /\ to_update # <<>>
    /\ to_insert # <<>>

\* C9, as the specification states it: the canonical table has exactly the
\* declared columns, each on every row, and no undeclared column.
ExactlyDeclaredColumns ==
    screen = "page" =>
       /\ Range(df_all.cols) = Range(ExpectedCols(page))
       /\ \A i \in DOMAIN df_all.rows : DOMAIN df_all.rows[i] = Range(ExpectedCols(page))

\* C9, as the code has it: every declared column is on every row of the
\* canonical table, with its default where the store did not return it, and
\* the undeclared columns the store returned are on every row as well.
DeclaredColumnsPresent ==
    screen = "page" =>
       LET returned == IF df_all.rows = <<>> THEN {} ELSE Range(store.cols)
           declared == Range(ExpectedCols(page))
       IN  /\ Range(df_all.cols) = declared \cup returned
           /\ \A i \in DOMAIN df_all.rows :
                 /\ DOMAIN df_all.rows[i] = declared \cup returned
                 /\ \A c \in declared \ returned :
                       df_all.rows[i][c] = MissingDefault(page, c)

\* a table loaded from a store without a declared column and with an undeclared one
DriftedLoadWitness ==
    /\ screen = "page"
    /\ df_all.rows # <<>>
    /\ "notes" \notin Range(store.cols)
    /\ "Extra Col" \in Range(df_all.cols)

\* C10: the filter leaves df_all as the loader made it and base_df holds
\* only rows of df_all, unchanged; a save names no record the filter left
\* out: no payload carries the identity of an excluded row, and every
\* written row that is not an added one was made from a row of base_df.
FilterLeavesExcludedRowsAlone ==
    /\ cache.valid => df_all = EnsureExpected(page, cache.data)
    /\ screen = "page" =>
          \A i \in DOMAIN CurBase.rows :
             /\ CurBase.rows[i] \in Range(df_all.rows)
             /\ CurBase.rows[i] \notin Excluded(page, df_all, selected)
    /\ Saved =>
          LET base == BaseDf(page, entry.df_all, selected).rows
              out == {x["id"] : x \in Excluded(page, entry.df_all, selected)}
          IN  \A k \in DOMAIN calls : \A j \in DOMAIN calls[k].batch :
                 LET r == calls[k].batch[j]
                 IN  /\ "id" \in DOMAIN r.vals => r.vals["id"] \notin out
                     /\ r.origin > 0 =>
                           /\ r.origin \in DOMAIN base
                           /\ base[r.origin] \notin Excluded(page, entry.df_all, selected)

\* a save of a filtered grid that sent an update while the filter hid a record
FilteredSaveWitness ==
    /\ Saved
    /\ Excluded(page, entry.df_all, selected) # {}
    /\ \E k \in DOMAIN calls : calls[k].op = "upsert"

\* C11: one save issues at most one upsert and at most one insert, the
\* upsert first: the upsert exactly when to_update is not empty, with the
\* whole of to_update; the insert exactly when to_insert is not empty and
\* the upsert, if there was one, succeeded, with the whole of to_insert;
\* with both batches empty the save issues no write call.
SaveCallOrder ==
    Saved =>
       LET ups == {k \in DOMAIN calls : calls[k].op = "upsert"}
           ins == {k \in DOMAIN calls : calls[k].op = "insert"}
       IN  /\ Cardinality(ups) <= 1
           /\ Cardinality(ins) <= 1
           /\ ups # {} <=> to_update # <<>>
           /\ ins # {} <=> (to_insert # <<>> /\ \A k \in ups : calls[k].ok)
           /\ \A k \in ups : calls[k].batch = to_update
           /\ \A k \in ins : calls[k].batch = to_insert
           /\ \A k \in ups, j \in ins : k < j
           /\ \A k \in DOMAIN calls : calls[k].op \in {"select", "upsert", "insert"}
           /\ (to_update = <<>> /\ to_insert = <<>>) =>
                 \A k \in DOMAIN calls : calls[k].op = "select"

\* a save that issued the upsert and, after it, the insert
BothCallsWitness ==
    /\ Saved
    /\ \E k, j \in DOMAIN calls :
          /\ k < j
          /\ calls[k].op = "upsert" /\ calls[k].ok
          /\ calls[j].op = "insert"

====
